---- MODULE Spec2Model ----
(***************************************************************************)
(* Dynamically loaded ExExes: library discovery (load_library_paths), the  *)
(* loader (load_library), the entry point generated by define_exex! and    *)
(* the type-erased context mirror (ExExContextDyn).                        *)
(*                                                                         *)
(* Strings are sequences of one-character strings, so that prefix          *)
(* stripping and extension extraction are computed, not assumed.  A path   *)
(* is a sequence of components.  Target platform: Linux                    *)
(* (DLL_PREFIX = "lib", DLL_SUFFIX = ".so").                               *)
(***************************************************************************)
EXTENDS Integers, Sequences, FiniteSets, TLC

VARIABLES
    dir,        \* listing of the plugin directory, in read_dir order
    scan,       \* outcome of the last load_library_paths call
    refcnt,     \* per library file: references held on its mapping (dlopen count)
    allocs,     \* values handed over by invoked entry points, by raw handle id
    tasks,      \* owned boxed tasks, by raw handle id
    call,       \* log of the load_library calls made, one record per call
    ctxs,       \* ExExContext values not yet consumed
    mirrors,    \* ExExContextDyn values produced by From
    chans       \* per channel id: events delivered to the receiver

vars == <<dir, scan, refcnt, allocs, tasks, call, ctxs, mirrors, chans>>
discoveryVars == <<dir, scan>>
loaderVars == <<refcnt, allocs, tasks, call>>
contextVars == <<ctxs, mirrors, chans>>

\* ------------------------------------------------------------------ bounds

MaxEntries == 3
MaxLoads == 3
MaxPolls == 2
MaxContexts == 2
MaxQueue == 2

\* ------------------------------------------------------------ option values

None == [some |-> FALSE, v |-> <<>>]
Some(x) == [some |-> TRUE, v |-> x]

\* --------------------------------------------------------------- constants

DYLIB_PREFIX == <<"l", "i", "b">>
DYLIB_EXTENSION == <<".", "s", "o">>
USER_FN_NAME == "_launch_exex"

\* ------------------------------------------------- std::path, str helpers

StartsWith(s, p) == Len(s) >= Len(p) /\ SubSeq(s, 1, Len(p)) = p
EndsWith(s, p) == Len(s) >= Len(p) /\ SubSeq(s, Len(s) - Len(p) + 1, Len(s)) = p

\* str::strip_prefix
strip_prefix(s, p) == IF StartsWith(s, p) THEN Some(SubSeq(s, Len(p) + 1, Len(s))) ELSE None

\* position of the last '.' in a file name, 0 when there is none
LastDot(name) ==
    LET dots == {i \in 1..Len(name) : name[i] = "."}
    IN IF dots = {} THEN 0 ELSE CHOOSE i \in dots : \A j \in dots : j <= i

\* Path::extension: the part of the file name after the final '.', None when
\* there is no '.', or when the only '.' is the first character
extension(path) ==
    LET name == path[Len(path)]
        d == LastDot(name)
    IN IF name = <<".", ".">> \/ d <= 1 THEN None ELSE Some(SubSeq(name, d + 1, Len(name)))

\* Path::file_name
file_name(path) == IF path = <<>> THEN None ELSE Some(path[Len(path)])

\* ---------------------------------------------------------- the file system

PluginDir == << <<"l", "i", "b", "s">> >>
PlainFile == << <<"a", ".", "s", "o">> >>
Missing == << <<"n", "o", "n", "e">> >>
Targets == {PluginDir, PlainFile, Missing}

libfoo_so == <<"l", "i", "b", "f", "o", "o", ".", "s", "o">>
libbar_so == <<"l", "i", "b", "b", "a", "r", ".", "s", "o">>
readme_txt == <<"r", "e", "a", "d", "m", "e", ".", "t", "x", "t">>
foo_so == <<"f", "o", "o", ".", "s", "o">>
libfoo_txt == <<"l", "i", "b", "f", "o", "o", ".", "t", "x", "t">>
libsub_so == <<"l", "i", "b", "s", "u", "b", ".", "s", "o">>

\* what read_dir's iterator can yield: a readable entry (regular file or
\* sub-directory, the latter holding a library of its own) or an I/O error
FileEntry(n) == [ok |-> TRUE, name |-> n, kind |-> "file", children |-> {}]
DirEntry(n) == [ok |-> TRUE, name |-> n, kind |-> "dir", children |-> {libbar_so}]
BadEntry == [ok |-> FALSE, name |-> <<>>, kind |-> "error", children |-> {}]
Entries ==
    {FileEntry(n) : n \in {libfoo_so, libbar_so, readme_txt, foo_so, libfoo_txt}}
        \cup {DirEntry(libsub_so), BadEntry}

\* what each path denotes
NodeKind(p) == IF p = PluginDir THEN "dir" ELSE IF p = PlainFile THEN "file" ELSE "missing"

\* Path::is_dir on the call's argument
IsDir_always(p) == TRUE
IsDir(p) == NodeKind(p) = "dir"

\* reth_fs_util::read_dir: the entries of a directory, an error otherwise
ReadDir(p, listing, readable) ==
    IF NodeKind(p) = "dir" /\ readable THEN [ok |-> TRUE, entries |-> listing]
    ELSE [ok |-> FALSE, entries |-> <<>>]

\* DirEntry::path
EntryPath(d, e) == Append(d, e.name)
\* Path::is_file on an entry's path
IsFile(e) == e.kind = "file"

\* ------------------------------------------------------ load_library_paths

\* `ext == DYLIB_EXTENSION`
ExtMatches_any(ext) == TRUE
ExtMatches(ext) == ext = DYLIB_EXTENSION

\* the flat_map closure on one readable entry: zero or one (id, path) pair
Classify(d, e) ==
    LET path == EntryPath(d, e)
        name == file_name(path)
        ext == extension(path)
        id == strip_prefix(name.v, DYLIB_PREFIX)
    IN IF IsFile(e) /\ name.some /\ ext.some /\ ExtMatches(ext.v) /\ id.some
       THEN << <<id.v, path>> >>
       ELSE <<>>

RECURSIVE Collect(_, _)
Collect(d, es) ==
    IF es = <<>> THEN <<>> ELSE Classify(d, Head(es)) \o Collect(d, Tail(es))

NoScan == [called |-> FALSE, target |-> <<>>, outcome |-> "None", listed |-> FALSE,
           listing |-> <<>>, entries |-> <<>>]

load_library_paths(directory, listing, readable) ==
    IF ~IsDir(directory)
    THEN [called |-> TRUE, target |-> directory, outcome |-> "Err", listed |-> FALSE,
          listing |-> <<>>, entries |-> <<>>]
    ELSE LET rd == ReadDir(directory, listing, readable)
         IN IF ~rd.ok
            THEN [called |-> TRUE, target |-> directory, outcome |-> "Err",
                  listed |-> TRUE, listing |-> <<>>, entries |-> <<>>]
            ELSE IF \E i \in 1..Len(rd.entries) : ~rd.entries[i].ok
            THEN \* dir_entry.unwrap() on an Err: the call panics, nothing is returned
                 [called |-> TRUE, target |-> directory, outcome |-> "Panic",
                  listed |-> TRUE, listing |-> rd.entries, entries |-> <<>>]
            ELSE [called |-> TRUE, target |-> directory, outcome |-> "Ok",
                  listed |-> TRUE, listing |-> rd.entries,
                  entries |-> Collect(directory, rd.entries)]

\* the environment creates one more entry in the plugin directory
AddEntry(e) ==
    /\ Len(dir) < MaxEntries
    /\ e.ok => \A i \in 1..Len(dir) : dir[i].name # e.name
    /\ dir' = Append(dir, e)
    /\ UNCHANGED <<scan, loaderVars, contextVars>>

LoadLibraryPaths(directory, readable) ==
    /\ scan' = load_library_paths(directory, dir, readable)
    /\ UNCHANGED <<dir, loaderVars, contextVars>>

InitDiscovery ==
    /\ dir = <<>>
    /\ scan = NoScan

\* ------------------------------------------------------------ define_exex!

\* the item define_exex! expands to
define_exex ==
    [symbol |-> "_launch_exex", no_mangle |-> TRUE, generic |-> TRUE, abi |-> "C",
     param |-> "ExExContext<Node>",
     ret |-> "impl Future<Output = Result<impl Future<Output = Result<()>> + Send>>"]

\* the function type load_library resolves USER_FN_NAME as
LoaderSymbol ==
    [symbol |-> USER_FN_NAME, abi |-> "Rust", param |-> "ExExContext<Node>",
     ret |-> "*mut dyn BoxedLaunchExEx<Node>"]

\* ------------------------------------------------------ library files on disk

NotALib == "notalib.so"
NoSymLib == "libnosym.so"
RawLib == "libraw.so"
MacroLib == "libmacro.so"
LibFiles == {NotALib, NoSymLib, RawLib, MacroLib}

\* NotALib is no shared object; NoSymLib exports no `_launch_exex`; RawLib
\* exports a hand-written entry point of the type the loader expects; MacroLib
\* is built with define_exex!.  A generic #[no_mangle] item may or may not end
\* up in the export table, hence `exported`.
Mappable(p) == p # NotALib
EntryOf(p) == IF p = MacroLib THEN define_exex ELSE LoaderSymbol
Exports(p, exported) ==
    IF p = RawLib \/ (p = MacroLib /\ exported) THEN {EntryOf(p).symbol} ELSE {}

\* ------------------------------------------------------------- load_library

\* libloading::Library::new: one more reference on the mapping
LibraryNew(rc, p) == [rc EXCEPT ![p] = @ + 1]
\* Drop for libloading::Library, run when `lib` goes out of scope
LibraryDrop(rc, p) == [rc EXCEPT ![p] = @ - 1]
\* mem::forget(lib): the handle's destructor never runs
mem_forget_dropped(rc, p) == LibraryDrop(rc, p)
mem_forget(rc, p) == rc

\* lib.get(USER_FN_NAME)
LibGet_unchecked(p, exported) == TRUE
LibGet(p, exported) == USER_FN_NAME \in Exports(p, exported)

\* raw_func_pointer(ctx): the value the entry point hands over
Invoke(p) == [lib |-> p, shape |-> EntryOf(p).ret, reclaimed |-> 0, freed |-> 0]

\* Box::from_raw: the raw handle becomes one owned box
Box_from_raw_twice(a) == [a EXCEPT !.reclaimed = @ + 2]
Box_from_raw(a) == [a EXCEPT !.reclaimed = @ + 1]

NewTask == [state |-> "init", polls |-> 0]

\* one call: the record of what it did, and the state it leaves behind
load_library(p, exported, rc, al, ts) ==
    IF ~Mappable(p)
    THEN [rec |-> [path |-> p, exported |-> exported, result |-> "ErrOpen", opens |-> 1,
                   gets |-> 0, invoked |-> 0, reclaimed |-> 0, released |-> FALSE,
                   task |-> 0],
          rc |-> rc, al |-> al, ts |-> ts]
    ELSE LET rc1 == LibraryNew(rc, p)
         IN IF ~LibGet(p, exported)
            THEN \* `?` returns early and `lib` is dropped
                 [rec |-> [path |-> p, exported |-> exported, result |-> "ErrSymbol",
                           opens |-> 1, gets |-> 1, invoked |-> 0, reclaimed |-> 0,
                           released |-> TRUE, task |-> 0],
                  rc |-> LibraryDrop(rc1, p), al |-> al, ts |-> ts]
            ELSE LET a == Box_from_raw(Invoke(p))
                     rc2 == mem_forget(rc1, p)
                 IN [rec |-> [path |-> p, exported |-> exported, result |-> "Ok",
                              opens |-> 1, gets |-> 1, invoked |-> 1,
                              reclaimed |-> a.reclaimed, released |-> rc2 # rc1,
                              task |-> Len(al) + 1],
                     rc |-> rc2, al |-> Append(al, a), ts |-> Append(ts, NewTask)]

LoadLibrary(p, exported) ==
    /\ Len(call) < MaxLoads
    /\ exported => p = MacroLib
    /\ LET r == load_library(p, exported, refcnt, allocs, tasks)
       IN /\ call' = Append(call, r.rec)
          /\ refcnt' = r.rc
          /\ allocs' = r.al
          /\ tasks' = r.ts
    /\ UNCHANGED <<discoveryVars, contextVars>>

\* the scheduler polls an owned task: the outer future resolves to the inner
\* one, the inner one to the ExEx's result; a poll may also return Pending
Poll(id, ready) ==
    /\ id \in DOMAIN tasks
    /\ tasks[id].state \in {"init", "running"}
    /\ tasks[id].polls < MaxPolls
    /\ tasks' = [tasks EXCEPT ![id] =
            [state |-> IF ~ready THEN @.state
                       ELSE IF @.state = "init" THEN "running" ELSE "done",
             polls |-> @.polls + 1]]
    /\ UNCHANGED <<refcnt, allocs, call, discoveryVars, contextVars>>

\* the scheduler drops the owned box: its allocation is freed
DropTask(id) ==
    /\ id \in DOMAIN tasks
    /\ tasks[id].state # "dropped"
    /\ tasks' = [tasks EXCEPT ![id] = [state |-> "dropped", polls |-> 0]]
    /\ allocs' = [allocs EXCEPT ![id].freed = @ + 1]
    /\ UNCHANGED <<refcnt, call, discoveryVars, contextVars>>

InitLoader ==
    /\ refcnt = [p \in LibFiles |-> 0]
    /\ allocs = <<>>
    /\ tasks = <<>>
    /\ call = <<>>

\* ----------------------------------------------------------- ExExContextDyn

Heads == {1, 2}
ChainSpecs == {"mainnet", "dev"}
RethConfigs == {"default", "custom"}
Events == {"FinishedHeight"}

\* NodeConfig::into_dyn: the chain spec behind a Box<dyn EthChainSpec>, the
\* other settings as they were
into_dyn(config) == [chain |-> [dyn |-> TRUE, inner |-> config.chain], datadir |-> config.datadir]

\* impl From<ExExContext<Node>> for ExExContextDyn
From_default_events(ctx) ==
    [head |-> ctx.head, config |-> into_dyn(ctx.config), reth_config |-> ctx.reth_config,
     events |-> 1]
From(ctx) ==
    [head |-> ctx.head, config |-> into_dyn(ctx.config), reth_config |-> ctx.reth_config,
     events |-> ctx.events]

\* the node builds a context for one ExEx, on an event channel of its own
NewContext(head, chain, rcfg) ==
    /\ Len(chans) < MaxContexts
    /\ chans' = Append(chans, <<>>)
    /\ ctxs' = ctxs \cup {[head |-> head, config |-> [chain |-> chain, datadir |-> "data"],
                           reth_config |-> rcfg, events |-> Len(chans) + 1,
                           components |-> "node", notifications |-> Len(chans) + 1]}
    /\ UNCHANGED <<mirrors, discoveryVars, loaderVars>>

\* ExExContextDyn::from(ctx): ctx is moved into the conversion
Convert(ctx) ==
    /\ ctx \in ctxs
    /\ ctxs' = ctxs \ {ctx}
    /\ mirrors' = mirrors \cup {[src |-> ctx, dyn |-> From(ctx)]}
    /\ UNCHANGED <<chans, discoveryVars, loaderVars>>

\* mpsc::UnboundedSender::send on the mirror's endpoint; the message records
\* the endpoint of the context the mirror was made from
SendEvent(m, ev) ==
    /\ m \in mirrors
    /\ m.dyn.events \in DOMAIN chans
    /\ Len(chans[m.dyn.events]) < MaxQueue
    /\ chans' = [chans EXCEPT ![m.dyn.events] = Append(@, [event |-> ev, via |-> m.src.events])]
    /\ UNCHANGED <<ctxs, mirrors, discoveryVars, loaderVars>>

InitContext ==
    /\ ctxs = {}
    /\ mirrors = {}
    /\ chans = <<>>

\* ---------------------------------------------------------- specifications

Init == InitDiscovery /\ InitLoader /\ InitContext

NextDiscovery ==
    \/ \E e \in Entries : AddEntry(e)
    \/ \E d \in Targets, readable \in BOOLEAN : LoadLibraryPaths(d, readable)

NextLoader ==
    \/ \E p \in LibFiles, exported \in BOOLEAN : LoadLibrary(p, exported)
    \/ \E id \in 1..MaxLoads, ready \in BOOLEAN : Poll(id, ready)
    \/ \E id \in 1..MaxLoads : DropTask(id)

NextContext ==
    \/ \E h \in Heads, c \in ChainSpecs, r \in RethConfigs : NewContext(h, c, r)
    \/ \E ctx \in ctxs : Convert(ctx)
    \/ \E m \in mirrors, ev \in Events : SendEvent(m, ev)

SpecDiscovery == Init /\ [][NextDiscovery]_vars
SpecLoader == Init /\ [][NextLoader]_vars
SpecContext == Init /\ [][NextContext]_vars

\* ------------------------------------------------------------------ claims

\* the identifier of a library file name: prefix and suffix both stripped
IsLibraryName(n) ==
    /\ Len(n) >= Len(DYLIB_PREFIX) + Len(DYLIB_EXTENSION)
    /\ StartsWith(n, DYLIB_PREFIX)
    /\ EndsWith(n, DYLIB_EXTENSION)
StrippedId(n) == SubSeq(n, Len(DYLIB_PREFIX) + 1, Len(n) - Len(DYLIB_EXTENSION))
Range(f) == {f[i] : i \in DOMAIN f}

\* C1: a scan that returns yields, for every regular file named
\* <prefix> id <suffix> directly in the directory, the pair (id, path of the
\* file); a directory holding libfoo.so, libbar.so and readme.txt gives exactly
\* the two pairs for "foo" and "bar".
C1_EveryLibraryListed ==
    scan.outcome = "Ok" =>
        /\ \A i \in DOMAIN scan.listing :
             LET e == scan.listing[i]
             IN (e.kind = "file" /\ IsLibraryName(e.name)) =>
                    <<StrippedId(e.name), Append(scan.target, e.name)>> \in Range(scan.entries)
        /\ Range(scan.listing) = {FileEntry(libfoo_so), FileEntry(libbar_so), FileEntry(readme_txt)}
             => Range(scan.entries) =
                    {<<<<"f", "o", "o">>, Append(scan.target, libfoo_so)>>,
                     <<<<"b", "a", "r">>, Append(scan.target, libbar_so)>>}

\* C7: a call on a path that is not a directory fails, returns no entry and
\* never lists anything.
C7_NonDirectoryFails ==
    (scan.called /\ NodeKind(scan.target) # "dir") =>
        (scan.outcome = "Err" /\ scan.entries = <<>> /\ ~scan.listed)

C7_Witness == scan.called /\ NodeKind(scan.target) = "file" /\ Len(dir) > 0

\* C8: every returned pair is the path of a regular file directly inside the
\* scanned directory whose name starts with the prefix and ends with the suffix;
\* wrong-suffix files, prefix-less files and sub-directories are never returned.
C8_OnlyLibrariesListed ==
    scan.outcome = "Ok" =>
        \A k \in DOMAIN scan.entries :
            \E i \in DOMAIN scan.listing :
                LET e == scan.listing[i]
                IN /\ e.ok /\ e.kind = "file"
                   /\ scan.entries[k][2] = Append(scan.target, e.name)
                   /\ StartsWith(e.name, DYLIB_PREFIX)
                   /\ EndsWith(e.name, DYLIB_EXTENSION)

C8_Witness ==
    /\ scan.outcome = "Ok"
    /\ Range(scan.listing) = {FileEntry(libfoo_txt), FileEntry(foo_so), DirEntry(libsub_so)}
    /\ \A k \in DOMAIN scan.entries :
         scan.entries[k][2][Len(scan.entries[k][2])] \notin {libfoo_txt, foo_so, libsub_so, libbar_so}

\* C10: a scan that meets a directory entry it cannot read returns Err.
C10_UnreadableEntryIsErr ==
    (scan.called /\ \E i \in DOMAIN scan.listing : ~scan.listing[i].ok) => scan.outcome = "Err"

C3_LibraryOutlivesTask ==
    \A id \in DOMAIN allocs : refcnt[allocs[id].lib] > 0

C3_Witness ==
    \E a, b \in DOMAIN tasks :
        /\ tasks[a].state = "dropped"
        /\ tasks[b].state = "done" /\ tasks[b].polls = MaxPolls
        /\ allocs[a].lib = allocs[b].lib

\* C4: every raw handle an entry point returned has been reclaimed into an
\* owned box exactly once; each invocation gives one owned task, freed once
\* when the task is dropped and not before.
C4_ReclaimedExactlyOnce ==
    /\ Len(allocs) = Cardinality({i \in DOMAIN call : call[i].invoked = 1})
    /\ Len(tasks) = Len(allocs)
    /\ \A i \in DOMAIN call : call[i].reclaimed = call[i].invoked
    /\ \A id \in DOMAIN allocs :
         /\ allocs[id].reclaimed = 1
         /\ allocs[id].freed = IF tasks[id].state = "dropped" THEN 1 ELSE 0

C4_Witness ==
    /\ \E id \in DOMAIN allocs : allocs[id].freed = 1
    /\ \E id \in DOMAIN allocs : allocs[id].freed = 0 /\ tasks[id].polls > 0

\* C5: the value handed over by the entry point of a library built with
\* define_exex! has the shape load_library reclaims.
C5_EntryPointConforms ==
    \A i \in DOMAIN call :
        (EntryOf(call[i].path) = define_exex /\ call[i].invoked = 1) =>
            /\ define_exex.symbol = LoaderSymbol.symbol
            /\ define_exex.param = LoaderSymbol.param
            /\ allocs[call[i].task].shape = LoaderSymbol.ret

\* C6: a call on a file that cannot be mapped, or on a library without the
\* symbol, returns an error after one attempt, without invoking anything,
\* reclaiming anything or producing a task.
C6_LoadErrors ==
    /\ Len(tasks) = Cardinality({i \in DOMAIN call : call[i].result = "Ok"})
    /\ \A i \in DOMAIN call :
         LET c == call[i]
         IN /\ ~Mappable(c.path) => c.result = "ErrOpen"
            /\ (Mappable(c.path) /\ USER_FN_NAME \notin Exports(c.path, c.exported))
                  => c.result = "ErrSymbol"
            /\ c.result \in {"ErrOpen", "ErrSymbol"} =>
                  (c.invoked = 0 /\ c.reclaimed = 0 /\ c.task = 0 /\ c.opens = 1 /\ c.gets <= 1)

C6_Witness ==
    /\ \E i \in DOMAIN call : call[i].result = "ErrOpen"
    /\ \E i \in DOMAIN call : call[i].result = "ErrSymbol" /\ call[i].path = NoSymLib

\* C9: the mirror carries the source's head, reth_config and config contents
\* (chain spec erased), and its events endpoint is the source's: what is sent
\* through it arrives on the source's channel.
C9_MirrorPreservesFields ==
    /\ \A m \in mirrors :
         /\ m.dyn.head = m.src.head
         /\ m.dyn.reth_config = m.src.reth_config
         /\ m.dyn.config.chain.dyn
         /\ m.dyn.config.chain.inner = m.src.config.chain
         /\ m.dyn.config.datadir = m.src.config.datadir
         /\ m.dyn.events = m.src.events
    /\ \A ch \in DOMAIN chans : \A i \in DOMAIN chans[ch] : chans[ch][i].via = ch

C9_Witness ==
    \E m \in mirrors : m.src.events = 2 /\ m.src.head = 2 /\ Len(chans[2]) > 0

====
